---- MODULE Spec2Model ----
(***************************************************************************)
(* Model of the quotation form (QuotationApp): the in-memory quotation     *)
(* record, the item-entry scratch, validation, quote-number increment,     *)
(* export to a PDF carrying the record in its subject, import of such a    *)
(* PDF, and the login, logout and route guard of App around the form.      *)
(*                                                                         *)
(* Text is modelled as a sequence of one-character strings, so that trim,  *)
(* the trailing-digit match, parseInt and number formatting are computed   *)
(* character by character.  Fixed messages are plain strings.              *)
(***************************************************************************)
EXTENDS Integers, Sequences, FiniteSets, TLC

VARIABLES
    quotationData,   \* useState<QuotationData>
    newItem,         \* useState<Item>: the item-entry scratch
    customUnit,      \* useState(''): the custom-unit text
    errors,          \* useState<ValidationErrors>: keys present -> message or Undefined
    baseQuoteNo,     \* useState<string>('')
    snackbar,        \* useState({open, message, severity})
    exports,         \* exportToPDF invocations suspended at an await
    uploads,         \* handleFileUpload invocations suspended at an await
    containerWidth,  \* quotationRef.current.style.width
    downloads,       \* files handed to the browser for download, oldest first
    result,          \* value returned by the last direct call of a pure function
    lastOp,          \* the handler that ran last and how it ended ("edit" for
                     \* the onChange handlers of the fields)
    lastArg,         \* the index passed to removeItem when it ran last
    cookie,          \* Cookies.get('auth'): a text, or NoCookie
    isAuthenticated, \* useState(Cookies.get('auth') === 'true') of App
    location,        \* the path the router is at
    login            \* the state of the Login view: username, password, error

authVars == <<cookie, isAuthenticated, location, login>>

vars == <<quotationData, newItem, customUnit, errors, baseQuoteNo, snackbar,
          exports, uploads, containerWidth, downloads, result, lastOp, lastArg,
          cookie, isAuthenticated, location, login>>

----------------------------------------------------------------------------
(* Text helpers *)

Digits == <<"0", "1", "2", "3", "4", "5", "6", "7", "8", "9">>

IsDigit(c) == \E d \in 1..10 : Digits[d] = c

DigitVal(c) == (CHOOSE d \in 1..10 : Digits[d] = c) - 1

IsSpace(c) == c = " "

\* String.prototype.trim: strip white space from both ends
RECURSIVE TrimStart(_)
TrimStart(s) ==
    IF s # <<>> /\ IsSpace(Head(s)) THEN TrimStart(Tail(s)) ELSE s

RECURSIVE TrimEnd(_)
TrimEnd(s) ==
    IF s # <<>> /\ IsSpace(s[Len(s)]) THEN TrimEnd(SubSeq(s, 1, Len(s) - 1)) ELSE s

trim(s) == TrimEnd(TrimStart(s))

\* parseInt(digits, 10) on a run of decimal digits
RECURSIVE parseInt(_)
parseInt(ds) ==
    IF ds = <<>> THEN 0
    ELSE 10 * parseInt(SubSeq(ds, 1, Len(ds) - 1)) + DigitVal(ds[Len(ds)])

\* Number.prototype.toString for a non-negative integer
RECURSIVE toString(_)
toString(n) ==
    IF n < 10 THEN <<Digits[n + 1]>>
    ELSE Append(toString(n \div 10), Digits[(n % 10) + 1])

\* index at which /(\d+)$/ matches, or 0 when it does not match
matchIndex(s) ==
    LET starts == {i \in 1..Len(s) : \A j \in i..Len(s) : IsDigit(s[j])}
    IN  IF starts = {} THEN 0
        ELSE CHOOSE i \in starts : \A k \in starts : i <= k

----------------------------------------------------------------------------
(* Quote-number increment *)

getNextQuoteNo_NoPrefix(base, quoteNo) ==
    IF base = <<>> THEN <<>>
    ELSE LET lastQuoteNo == IF quoteNo # <<>> THEN quoteNo ELSE base
             idx == matchIndex(lastQuoteNo)
         IN  IF idx # 0
             THEN toString(parseInt(SubSeq(lastQuoteNo, idx, Len(lastQuoteNo))) + 1)
             ELSE IF lastQuoteNo # <<>> THEN lastQuoteNo \o <<"-", "1">> ELSE <<"1">>

getNextQuoteNo_NoSuffix(base, quoteNo) ==
    IF base = <<>> THEN <<>>
    ELSE LET lastQuoteNo == IF quoteNo # <<>> THEN quoteNo ELSE base
             idx == matchIndex(lastQuoteNo)
         IN  IF idx # 0
             THEN SubSeq(lastQuoteNo, 1, idx - 1)
                    \o toString(parseInt(SubSeq(lastQuoteNo, idx, Len(lastQuoteNo))) + 1)
             ELSE lastQuoteNo

getNextQuoteNo_FromBase(base, quoteNo) ==
    IF base = <<>> THEN <<>>
    ELSE LET lastQuoteNo == base
             idx == matchIndex(lastQuoteNo)
         IN  IF idx # 0
             THEN LET num    == parseInt(SubSeq(lastQuoteNo, idx, Len(lastQuoteNo)))
                      prefix == SubSeq(lastQuoteNo, 1, idx - 1)
                  IN  prefix \o toString(num + 1)
             ELSE lastQuoteNo \o <<"-", "1">>

getNextQuoteNo(base, quoteNo) ==
    IF base = <<>> THEN <<>>
    ELSE LET lastQuoteNo == IF quoteNo # <<>> THEN quoteNo ELSE base
             idx == matchIndex(lastQuoteNo)
         IN  IF idx # 0
             THEN LET num    == parseInt(SubSeq(lastQuoteNo, idx, Len(lastQuoteNo)))
                      prefix == SubSeq(lastQuoteNo, 1, idx - 1)
                  IN  prefix \o toString(num + 1)
             ELSE IF lastQuoteNo # <<>> THEN lastQuoteNo \o <<"-", "1">> ELSE <<"1">>

----------------------------------------------------------------------------
(* Fresh-session values *)

\* new Date().toLocaleDateString('en-GB') on the day of the session
Today == <<"0", "5", "/", "1", "1", "/", "2", "0", "2", "6">>

Seven == <<"7">>

FreshQuotation ==
    [customerName |-> <<>>, address |-> <<>>, mobile |-> <<>>, quoteNo |-> <<>>,
     date |-> Today, validDays |-> Seven, Requirements |-> <<>>, items |-> <<>>,
     preparedBy |-> <<>>, salesMan |-> <<>>, showTitle |-> TRUE]

FreshItem ==
    [description |-> <<>>, qty |-> 0, unit |-> <<>>, rate |-> 0, amount |-> 0]

FreshSnackbar == [open |-> FALSE, message |-> "", severity |-> "success"]

NoResult == [called |-> FALSE, value |-> <<>>]

\* a ValidationErrors object: every key is Absent, or present holding a
\* message, or present holding undefined
Absent == "absent"
Undefined == "undefined"

ErrorFields == {"customerName", "address", "mobile", "quoteNo"}

NoErrors == [k \in ErrorFields |-> Absent]

\* Object.keys(errors)
Keys(e) == {k \in ErrorFields : e[k] # Absent}

NoArg == 0

NoCookie == "<none>"

FreshLogin == [username |-> "", password |-> "", error |-> ""]

\* the session is logged in and the form is on screen
InitAuth ==
    /\ cookie = "true"
    /\ isAuthenticated = TRUE
    /\ location = "/"
    /\ login = FreshLogin

InitOther ==
    /\ InitAuth
    /\ lastArg = NoArg
    /\ newItem = FreshItem
    /\ customUnit = <<>>
    /\ errors = NoErrors
    /\ snackbar = FreshSnackbar
    /\ exports = <<>>
    /\ uploads = <<>>
    /\ containerWidth = ""
    /\ downloads = <<>>
    /\ result = NoResult
    /\ lastOp = "init"

Init ==
    /\ quotationData = FreshQuotation
    /\ baseQuoteNo = <<>>
    /\ InitOther

----------------------------------------------------------------------------
(* Specification of the quote-number increment on its own: the form holds  *)
(* some recorded base and some current quote number, and getNextQuoteNo is *)
(* called.                                                                 *)

MaxQuoteLen == 3

QuoteAlphabet == {"Q", "-", "0", "1", "9"}

RECURSIVE TextsUpTo(_, _)
TextsUpTo(alphabet, n) ==
    IF n = 0 THEN {<<>>}
    ELSE LET shorter == TextsUpTo(alphabet, n - 1)
         IN  shorter \cup {Append(s, c) : s \in shorter, c \in alphabet}

QT2024007 == <<"Q", "T", "-", "2", "0", "2", "4", "-", "0", "0", "7">>
QT2024008 == <<"Q", "T", "-", "2", "0", "2", "4", "-", "0", "0", "8">>
QT9       == <<"Q", "T", "-", "9">>
QT10      == <<"Q", "T", "-", "1", "0">>
ABC       == <<"A", "B", "C">>
ABC1      == <<"A", "B", "C", "-", "1">>
FortyTwo  == <<"4", "2">>
FortyThree == <<"4", "3">>

QuoteTexts ==
    TextsUpTo(QuoteAlphabet, MaxQuoteLen) \cup {QT2024007, QT9, ABC, FortyTwo}

BaseTexts == {<<"Q">>, <<"7">>, ABC, QT2024007}

InitQuote ==
    /\ InitOther
    /\ \E q \in QuoteTexts :
         /\ quotationData = [FreshQuotation EXCEPT !.quoteNo = q]
         /\ baseQuoteNo \in (IF q = <<>> THEN BaseTexts \cup {<<>>} ELSE BaseTexts)

CallGetNextQuoteNo ==
    /\ ~result.called
    /\ result' = [called |-> TRUE,
                  value |-> getNextQuoteNo(baseQuoteNo, quotationData.quoteNo)]
    /\ lastOp' = "getNextQuoteNo"
    /\ UNCHANGED <<quotationData, newItem, customUnit, errors, baseQuoteNo,
                   snackbar, exports, uploads, containerWidth, downloads>>
    /\ lastArg' = NoArg
    /\ UNCHANGED authVars

NextQuote == CallGetNextQuoteNo

SpecQuote == InitQuote /\ [][NextQuote]_vars

----------------------------------------------------------------------------
(* Validation *)

MobileDigits == 10

MsgNameRequired    == "Customer name is required"
MsgAddressRequired == "Address is required"
MsgMobileRequired  == "Mobile number is required"
MsgMobileInvalid   == "Please enter a valid 10-digit mobile number"
MsgQuoteRequired   == "Quote number is required"

\* /^\d{10}$/.test(s)
IsTenDigits(s) == Len(s) = MobileDigits /\ \A i \in 1..Len(s) : IsDigit(s[i])

\* the newErrors object built by validateFields
newErrorsOf_FirstOnly(q) ==
    [k \in ErrorFields |->
        IF k = "customerName" /\ trim(q.customerName) = <<>> THEN MsgNameRequired
        ELSE IF k = "address" /\ trim(q.customerName) # <<>> /\ trim(q.address) = <<>>
             THEN MsgAddressRequired
        ELSE Absent]

newErrorsOf(q) ==
    [k \in ErrorFields |->
        CASE k = "customerName" ->
                IF trim(q.customerName) = <<>> THEN MsgNameRequired ELSE Absent
          [] k = "address" ->
                IF trim(q.address) = <<>> THEN MsgAddressRequired ELSE Absent
          [] k = "mobile" ->
                IF trim(q.mobile) = <<>> THEN MsgMobileRequired
                ELSE IF ~IsTenDigits(trim(q.mobile)) THEN MsgMobileInvalid
                ELSE Absent
          [] k = "quoteNo" ->
                IF trim(q.quoteNo) = <<>> THEN MsgQuoteRequired ELSE Absent]

\* the boolean returned by validateFields
validateFields_NameOnly(q) == trim(q.customerName) # <<>>

validateFields(q) == Keys(newErrorsOf(q)) = {}

MsgFillRequired == "Please fill in all required fields"

Notify(message, severity) ==
    [open |-> TRUE, message |-> message, severity |-> severity]

----------------------------------------------------------------------------
(* Field edits *)

TextFields ==
    {"customerName", "address", "mobile", "Requirements", "preparedBy",
     "quoteNo", "date", "validDays", "salesMan"}

\* errors[field] is truthy: the key holds a message
HasMessage(e, field) ==
    field \in ErrorFields /\ e[field] # Absent /\ e[field] # Undefined

\* setErrors({ ...errors, [field]: undefined }), done only when errors[field]
\* holds a message
clearedErrors_All(e, field) ==
    IF HasMessage(e, field) THEN [k \in ErrorFields |-> Undefined] ELSE e

clearedErrors(e, field) ==
    IF HasMessage(e, field) THEN [e EXCEPT ![field] = Undefined] ELSE e

\* the base quote number after an edit: the typed quote number when no
\* base is recorded
editedBase_Never(base, field, value) == base

editedBase(base, field, value) ==
    IF field = "quoteNo" /\ base = <<>> THEN value ELSE base

handleCustomerChange(field, value) ==
    /\ baseQuoteNo' = editedBase(baseQuoteNo, field, value)
    /\ quotationData' = [quotationData EXCEPT ![field] = value]
    /\ errors' = clearedErrors(errors, field)
    /\ lastOp' = "edit"
    /\ UNCHANGED <<newItem, customUnit, snackbar, exports, uploads,
                   containerWidth, downloads, result>>
    /\ lastArg' = NoArg
    /\ UNCHANGED authVars

handleToggleChange(checked) ==
    /\ quotationData' = [quotationData EXCEPT !.showTitle = checked]
    /\ lastOp' = "edit"
    /\ UNCHANGED <<newItem, customUnit, errors, baseQuoteNo, snackbar, exports,
                   uploads, containerWidth, downloads, result>>
    /\ lastArg' = NoArg
    /\ UNCHANGED authVars

----------------------------------------------------------------------------
(* The item-entry scratch.  Quantities, rates and amounts are numbers with  *)
(* two decimals, held as integers counting hundredths.                      *)

Scale == 100

\* The pairs (qty, rate), in hundredths, whose product is a decimal tie
\* (..50 ten-thousandths) and whose IEEE-754 double product lies below that
\* tie: 1.15 * 0.1 is 0.11499999999999999 and 1.15 * 0.5 is
\* 0.57499999999999996, while 0.23 * 0.5 is 0.115 (stored just above the
\* tie).  Listed for the quantities and rates typed in the specifications.
ProductBelowTie == {<<115, 10>>, <<115, 50>>}

\* Number((qty * rate).toFixed(2)): the double product rounded to the
\* nearest hundredth.  A product that is not a decimal tie rounds as its
\* exact value does; a tie goes the way the double product lies.
toFixed2_Truncates(qty, rate) ==
    LET p == qty * rate
        a == IF p < 0 THEN -p ELSE p
        r == a \div Scale
    IN  IF p < 0 THEN -r ELSE r

toFixed2(qty, rate) ==
    LET p == qty * rate
        a == IF p < 0 THEN -p ELSE p
        r == IF a % Scale = Scale \div 2 /\ <<qty, rate>> \in ProductBelowTie
             THEN a \div Scale
             ELSE (a + (Scale \div 2)) \div Scale
    IN  IF p < 0 THEN -r ELSE r

Custom == <<"c", "u", "s", "t", "o", "m">>

handleItemChange(field, value) ==
    /\ LET updatedItem == [newItem EXCEPT ![field] = value] IN
         newItem' = IF field \in {"qty", "rate"}
                    THEN [updatedItem EXCEPT
                            !.amount = toFixed2(updatedItem.qty, updatedItem.rate)]
                    ELSE updatedItem
    /\ customUnit' = IF field = "unit" THEN <<>> ELSE customUnit
    /\ lastOp' = "edit"
    /\ UNCHANGED <<quotationData, errors, baseQuoteNo, snackbar, exports,
                   uploads, containerWidth, downloads, result>>
    /\ lastArg' = NoArg
    /\ UNCHANGED authVars

\* onChange of the custom-unit field, rendered while the unit is 'custom'
setCustomUnit(value) ==
    /\ newItem.unit = Custom
    /\ customUnit' = value
    /\ lastOp' = "edit"
    /\ UNCHANGED <<quotationData, newItem, errors, baseQuoteNo, snackbar,
                   exports, uploads, containerWidth, downloads, result>>
    /\ lastArg' = NoArg
    /\ UNCHANGED authVars

MsgItemRequired == "Please fill in all required item fields"

\* !newItem.description || !newItem.qty || !newItem.rate
addItemRejects_IgnoresRate(item) ==
    item.description = <<>> \/ item.qty = 0

addItemRejects(item) ==
    item.description = <<>> \/ item.qty = 0 \/ item.rate = 0

itemToAdd_KeepsSentinel(item, custom) == item

itemToAdd(item, custom) ==
    [item EXCEPT !.unit = IF item.unit = Custom THEN custom ELSE item.unit]

addItem ==
    /\ IF addItemRejects(newItem)
       THEN /\ snackbar' = Notify(MsgItemRequired, "error")
            /\ lastOp' = "addItem:rejected"
            /\ UNCHANGED <<quotationData, newItem, customUnit>>
       ELSE /\ quotationData' =
                 [quotationData EXCEPT
                    !.items = Append(quotationData.items,
                                     itemToAdd(newItem, customUnit))]
            /\ newItem' = FreshItem
            /\ customUnit' = <<>>
            /\ lastOp' = "addItem:added"
            /\ UNCHANGED snackbar
    /\ UNCHANGED <<errors, baseQuoteNo, exports, uploads, containerWidth,
                   downloads, result>>
    /\ lastArg' = NoArg
    /\ UNCHANGED authVars

\* quotationData.items.filter((_, i) => i !== index), index counted from 0
removeAt_OneBased(items, index) ==
    LET keep == {i \in 1..Len(items) : i # index}
        pos(n) == CHOOSE i \in keep : Cardinality({j \in keep : j <= i}) = n
    IN  [n \in 1..Cardinality(keep) |-> items[pos(n)]]

removeAt(items, index) ==
    LET keep == {i \in 1..Len(items) : i - 1 # index}
        pos(n) == CHOOSE i \in keep : Cardinality({j \in keep : j <= i}) = n
    IN  [n \in 1..Cardinality(keep) |-> items[pos(n)]]

removeItem(index) ==
    /\ quotationData' =
         [quotationData EXCEPT !.items = removeAt(quotationData.items, index)]
    /\ lastOp' = "removeItem"
    /\ UNCHANGED <<newItem, customUnit, errors, baseQuoteNo, snackbar, exports,
                   uploads, containerWidth, downloads, result>>
    /\ lastArg' = index
    /\ UNCHANGED authVars

\* quotationData.items.reduce((sum, item) => sum + item.amount, 0)
RECURSIVE sumAmounts_SumsRates(_)
sumAmounts_SumsRates(items) ==
    IF items = <<>> THEN 0
    ELSE sumAmounts_SumsRates(SubSeq(items, 1, Len(items) - 1)) + items[Len(items)].rate

RECURSIVE sumAmounts(_)
sumAmounts(items) ==
    IF items = <<>> THEN 0
    ELSE sumAmounts(SubSeq(items, 1, Len(items) - 1)) + items[Len(items)].amount

calculateTotal == sumAmounts(quotationData.items)

\* onClose of the Snackbar and of its Alert
closeSnackbar ==
    /\ snackbar.open
    /\ snackbar' = [snackbar EXCEPT !.open = FALSE]
    /\ lastOp' = "closeSnackbar"
    /\ UNCHANGED <<quotationData, newItem, customUnit, errors, baseQuoteNo,
                   exports, uploads, containerWidth, downloads, result>>
    /\ lastArg' = NoArg
    /\ UNCHANGED authVars

----------------------------------------------------------------------------
(* Files.  A PDF file is a record: whether PDFDocument.load accepts it, and *)
(* its subject.  A subject is absent, or a text; a text is empty, or does   *)
(* not parse as JSON, or parses to a JSON value.                            *)

JsonNull == [type |-> "null", fields |-> <<>>]

NoSubject == [present |-> FALSE, empty |-> TRUE, json |-> FALSE, value |-> JsonNull]

\* JSON.stringify of a record all of whose fields are defined: the text
\* parses back to an object with every key
stringify(data) ==
    [present |-> TRUE, empty |-> FALSE, json |-> TRUE,
     value |-> [type |-> "object", fields |-> data]]

\* the document assembled by exportToPDF from the record in its closure
pdfOf(q) ==
    [kind |-> "pdf", name |-> q.quoteNo, title |-> q.quoteNo, loadable |-> TRUE,
     subject |-> stringify(q)]

\* A cell of the sheet is a fixed string of the program, a text of the
\* record, or a number.
Fixed(s)  == [kind |-> "fixed", label |-> s, text |-> <<>>, num |-> 0]
TextCell(t) == [kind |-> "text", label |-> "", text |-> t, num |-> 0]
NumCell(n) == [kind |-> "number", label |-> "", text |-> <<>>, num |-> n]

\* cell === ''
IsEmptyString(cell) ==
    \/ cell.kind = "fixed" /\ cell.label = ""
    \/ cell.kind = "text" /\ cell.text = <<>>

\* the groups of the en-IN locale: the last three digits, then twos
RECURSIVE groupTwos(_)
groupTwos(ds) ==
    IF Len(ds) <= 2 THEN ds
    ELSE groupTwos(SubSeq(ds, 1, Len(ds) - 2)) \o <<",">>
         \o SubSeq(ds, Len(ds) - 1, Len(ds))

groupIndian(ds) ==
    IF Len(ds) <= 3 THEN ds
    ELSE groupTwos(SubSeq(ds, 1, Len(ds) - 3)) \o <<",">>
         \o SubSeq(ds, Len(ds) - 2, Len(ds))

\* Intl.NumberFormat('en-IN', exactly two fraction digits) of an amount
\* held in hundredths
formatAmount(amount) ==
    LET magnitude == IF amount < 0 THEN 0 - amount ELSE amount
        whole     == magnitude \div Scale
        cents     == magnitude % Scale
    IN  (IF amount < 0 THEN <<"-">> ELSE <<>>)
        \o groupIndian(toString(whole)) \o <<".">>
        \o <<Digits[(cents \div 10) + 1], Digits[(cents % 10) + 1]>>

DaysSuffix == <<" ", "D", "a", "y", "s">>

BlankRow == <<Fixed("")>>

itemRow(item) ==
    <<TextCell(item.description), NumCell(item.qty), TextCell(item.unit),
      NumCell(item.rate), TextCell(formatAmount(item.amount))>>

itemRows(items) == [i \in 1..Len(items) |-> itemRow(items[i])]

TitleRow  == <<Fixed("QUOTATION")>>
HeaderRow ==
    <<Fixed("Description of Goods"), Fixed("QTY"), Fixed("Unit"), Fixed("Rate"),
      Fixed("Amount")>>
TotalRow(total) ==
    <<Fixed("GRAND TOTAL"), Fixed(""), Fixed(""), Fixed(""),
      TextCell(formatAmount(total))>>
RequirementsRow(q) == <<Fixed("Requirements:"), TextCell(q.Requirements)>>

\* the array literal of exportToExcel, before its filter
excelRows(q, total) ==
    (IF q.showTitle THEN <<TitleRow>> ELSE <<>>)
    \o << <<Fixed("MANNANETHU AGENCIES")>>,
          <<Fixed("THATTEKATTUPADI, CHETTIKULANGARA P O")>>,
          <<Fixed("ALAPPUZHA DIST, 690 106")>>,
          <<Fixed("MOB: 6235353512, 7025777710")>>,
          <<Fixed("Email: mannanethu@gmail.com")>>,
          BlankRow,
          <<Fixed("Salesperson:"), TextCell(q.salesMan)>>,
          BlankRow,
          <<Fixed("Customer Details:")>>,
          <<Fixed("Name:"), TextCell(q.customerName)>>,
          <<Fixed("Address:"), TextCell(q.address)>>,
          <<Fixed("Mobile:"), TextCell(q.mobile)>>,
          BlankRow,
          <<Fixed("Quote No:"), TextCell(q.quoteNo)>>,
          <<Fixed("Date:"), TextCell(q.date)>>,
          <<Fixed("Valid for:"), TextCell(q.validDays \o DaysSuffix)>>,
          BlankRow,
          HeaderRow >>
    \o itemRows(q.items)
    \o << BlankRow,
          TotalRow(total),
          BlankRow,
          RequirementsRow(q),
          BlankRow,
          <<Fixed("Prepared By:"), TextCell(q.preparedBy)>> >>

\* the filter of an earlier revision: a row is kept when it has a cell
keptRow_AnyCell(row) == Len(row) > 0

\* the filter: a row is kept when it has a cell that is not ''
keptRow(row) ==
    Len(row) > 0 /\ \E i \in 1..Len(row) : ~IsEmptyString(row[i])

excelData(q, total) == SelectSeq(excelRows(q, total), keptRow)

\* the workbook written by exportToExcel: its file name and its sheet
xlsxOf(q, total) ==
    [kind |-> "xlsx", name |-> q.quoteNo, rows |-> excelData(q, total)]

MsgExcelDone == "Excel file exported successfully"
MsgPdfDone   == "PDF exported successfully"
MsgPdfLoaded == "PDF loaded successfully"
MsgNoData    == "No quotation data found in the PDF metadata"
MsgLoadError == "Error loading PDF: <cause>"

Width800 == "800px"

MaxInFlight == 1
MaxDownloads == 1
MaxUploads == 1

\* the Export and Submit buttons are disabled while errors has a key
ExportEnabled_Exclusive == Keys(errors) = {} /\ exports = <<>>

ExportEnabled == Keys(errors) = {}

SubmitEnabled == quotationData.items # <<>> /\ Keys(errors) = {}

\* the bounds of the exploration: so many exports in flight and so many
\* files downloaded
CanStartExport ==
    Len(exports) < MaxInFlight /\ Len(exports) + Len(downloads) < MaxDownloads

CanDownload == Len(exports) + Len(downloads) < MaxDownloads

\* a submit that passes validation starts an export
CanSubmit == validateFields(quotationData) => CanStartExport

\* the part of exportToPDF that runs before it suspends in html2canvas
startedExport_Rasterized ==
    [data |-> quotationData, originalWidth |-> containerWidth, pc |-> "save"]

startedExport_Reset ==
    [data |-> [FreshQuotation EXCEPT
                  !.quoteNo = getNextQuoteNo(baseQuoteNo, quotationData.quoteNo)],
     originalWidth |-> containerWidth, pc |-> "html2canvas"]

startedExport ==
    [data |-> quotationData, originalWidth |-> containerWidth, pc |-> "html2canvas"]

exportToExcel ==
    /\ ExportEnabled
    /\ errors' = newErrorsOf(quotationData)
    /\ IF ~validateFields(quotationData)
       THEN /\ snackbar' = Notify(MsgFillRequired, "error")
            /\ lastOp' = "exportToExcel:invalid"
            /\ UNCHANGED downloads
       ELSE /\ downloads' = Append(downloads, xlsxOf(quotationData, calculateTotal))
            /\ snackbar' = Notify(MsgExcelDone, "success")
            /\ lastOp' = "exportToExcel:done"
    /\ UNCHANGED <<quotationData, newItem, customUnit, baseQuoteNo, exports,
                   uploads, containerWidth, result>>
    /\ lastArg' = NoArg
    /\ UNCHANGED authVars

exportToPDF ==
    /\ ExportEnabled
    /\ errors' = newErrorsOf(quotationData)
    /\ IF ~validateFields(quotationData)
       THEN /\ snackbar' = Notify(MsgFillRequired, "error")
            /\ lastOp' = "exportToPDF:invalid"
            /\ UNCHANGED <<exports, containerWidth>>
       ELSE /\ exports' = Append(exports, startedExport)
            /\ containerWidth' = Width800
            /\ lastOp' = "exportToPDF:started"
            /\ UNCHANGED snackbar
    /\ UNCHANGED <<quotationData, newItem, customUnit, baseQuoteNo, uploads,
                   downloads, result>>
    /\ lastArg' = NoArg
    /\ UNCHANGED authVars

dropAt(seq, i) == SubSeq(seq, 1, i - 1) \o SubSeq(seq, i + 1, Len(seq))

\* html2canvas resolves: the width is restored and the document is assembled
canvasReady(i) ==
    /\ i \in 1..Len(exports)
    /\ exports[i].pc = "html2canvas"
    /\ containerWidth' = exports[i].originalWidth
    /\ exports' = [exports EXCEPT ![i].pc = "save"]
    /\ lastOp' = "exportToPDF:canvas"
    /\ UNCHANGED <<quotationData, newItem, customUnit, errors, baseQuoteNo,
                   snackbar, uploads, downloads, result>>
    /\ lastArg' = NoArg
    /\ UNCHANGED authVars

\* html2canvas rejects: exportToPDF ends with that rejection, nothing
\* catches it and the statements after the await do not run
canvasFailed(i) ==
    /\ i \in 1..Len(exports)
    /\ exports[i].pc = "html2canvas"
    /\ exports' = dropAt(exports, i)
    /\ lastOp' = "exportToPDF:failed"
    /\ lastArg' = NoArg
    /\ UNCHANGED <<quotationData, newItem, customUnit, errors, baseQuoteNo,
                   snackbar, uploads, containerWidth, downloads, result>>
    /\ UNCHANGED authVars

\* pdfDoc.save resolves: the file is downloaded and the success is notified
exportDone(i) ==
    /\ i \in 1..Len(exports)
    /\ exports[i].pc = "save"
    /\ downloads' = Append(downloads, pdfOf(exports[i].data))
    /\ exports' = dropAt(exports, i)
    /\ snackbar' = Notify(MsgPdfDone, "success")
    /\ lastOp' = "exportToPDF:done"
    /\ UNCHANGED <<quotationData, newItem, customUnit, errors, baseQuoteNo,
                   uploads, containerWidth, result>>
    /\ lastArg' = NoArg
    /\ UNCHANGED authVars

----------------------------------------------------------------------------
(* Import *)

\* loadedData.field || fallback, for a text field
orText(fields, k, fallback) ==
    IF k \in DOMAIN fields /\ fields[k] # <<>> THEN fields[k] ELSE fallback

\* loadedData.items || []
orItems(fields) == IF "items" \in DOMAIN fields THEN fields.items ELSE <<>>

\* loadedData.showTitle ?? true
showTitleOr(fields) ==
    IF "showTitle" \in DOMAIN fields THEN fields.showTitle ELSE TRUE

\* the record handed to setQuotationData after a successful parse
loadedQuotation(fields) ==
    [customerName |-> orText(fields, "customerName", <<>>),
     address      |-> orText(fields, "address", <<>>),
     mobile       |-> orText(fields, "mobile", <<>>),
     quoteNo      |-> orText(fields, "quoteNo", <<>>),
     date         |-> orText(fields, "date", Today),
     validDays    |-> orText(fields, "validDays", Seven),
     Requirements |-> orText(fields, "Requirements", <<>>),
     items        |-> orItems(fields),
     preparedBy   |-> orText(fields, "preparedBy", <<>>),
     salesMan     |-> orText(fields, "salesMan", <<>>),
     showTitle    |-> showTitleOr(fields)]

\* how the body of handleFileUpload ends for a file, once its bytes are read
importOutcome_NoDataAccepted(file) ==
    IF ~file.loadable THEN "throws"
    ELSE IF ~file.subject.present \/ file.subject.empty THEN "loaded"
    ELSE IF ~file.subject.json THEN "throws"
    ELSE IF file.subject.value.type = "null" THEN "throws"
    ELSE "loaded"

importOutcome(file) ==
    IF ~file.loadable THEN "throws"
    ELSE IF ~file.subject.present THEN "nodata"
    ELSE IF file.subject.empty THEN "nodata"
    ELSE IF ~file.subject.json THEN "throws"
    ELSE IF file.subject.value.type = "null" THEN "throws"
    ELSE "loaded"

\* the properties read off the parsed value: those of the object, none for
\* a number, a string or a boolean
fieldsOf(file) ==
    IF file.subject.present /\ ~file.subject.empty /\ file.subject.json
       /\ file.subject.value.type = "object"
    THEN file.subject.value.fields
    ELSE [k \in {} |-> <<>>]

\* a file is picked: handleFileUpload runs up to file.arrayBuffer()
handleFileUpload(file) ==
    /\ Len(uploads) < MaxUploads
    /\ uploads' = Append(uploads, file)
    /\ lastOp' = "handleFileUpload:reading"
    /\ UNCHANGED <<quotationData, newItem, customUnit, errors, baseQuoteNo,
                   snackbar, exports, containerWidth, downloads, result>>
    /\ lastArg' = NoArg
    /\ UNCHANGED authVars

\* the bytes are read and parsed: the rest of handleFileUpload
uploadDone(i) ==
    /\ i \in 1..Len(uploads)
    /\ uploads' = dropAt(uploads, i)
    /\ LET file == uploads[i]
           outcome == importOutcome(file)
       IN  CASE outcome = "throws" ->
                  /\ snackbar' = Notify(MsgLoadError, "error")
                  /\ lastOp' = "handleFileUpload:error"
                  /\ UNCHANGED <<quotationData, baseQuoteNo>>
             [] outcome = "nodata" ->
                  /\ snackbar' = Notify(MsgNoData, "error")
                  /\ lastOp' = "handleFileUpload:nodata"
                  /\ UNCHANGED <<quotationData, baseQuoteNo>>
             [] outcome = "loaded" ->
                  /\ quotationData' = loadedQuotation(fieldsOf(file))
                  /\ baseQuoteNo' = orText(fieldsOf(file), "quoteNo", <<>>)
                  /\ snackbar' = Notify(MsgPdfLoaded, "success")
                  /\ lastOp' = "handleFileUpload:loaded"
    /\ UNCHANGED <<newItem, customUnit, errors, exports, containerWidth,
                   downloads, result>>
    /\ lastArg' = NoArg
    /\ UNCHANGED authVars

----------------------------------------------------------------------------
(* Submit *)

\* the record set by handleSubmit
resetQuotation_KeepsCustomer(q, nextQuoteNo) ==
    [FreshQuotation EXCEPT !.quoteNo = nextQuoteNo, !.customerName = q.customerName]

resetQuotation(q, nextQuoteNo) == [FreshQuotation EXCEPT !.quoteNo = nextQuoteNo]

handleSubmit ==
    /\ SubmitEnabled
    /\ IF ~validateFields(quotationData)
       THEN /\ errors' = newErrorsOf(quotationData)
            /\ snackbar' = Notify(MsgFillRequired, "error")
            /\ lastOp' = "handleSubmit:invalid"
            /\ UNCHANGED <<quotationData, newItem, customUnit, baseQuoteNo,
                           exports, containerWidth>>
       ELSE \* exportToPDF(): validates again and suspends in html2canvas
            /\ exports' = Append(exports, startedExport)
            /\ containerWidth' = Width800
            /\ LET nextQuoteNo == getNextQuoteNo(baseQuoteNo, quotationData.quoteNo)
               IN  /\ quotationData' = resetQuotation(quotationData, nextQuoteNo)
                   /\ baseQuoteNo' = nextQuoteNo
            /\ errors' = NoErrors
            /\ newItem' = FreshItem
            /\ customUnit' = <<>>
            /\ lastOp' = "handleSubmit:submitted"
            /\ UNCHANGED snackbar
    /\ UNCHANGED <<uploads, downloads, result>>
    /\ lastArg' = NoArg
    /\ UNCHANGED authVars

----------------------------------------------------------------------------
(* Login, logout and the route guard *)

MsgInvalidLogin == "Invalid username or password"

\* username === 'mannanethu' && password === 'maN@n&t'
credentialsOk_NameOnly(username, password) == username = "mannanethu"

credentialsOk(username, password) ==
    username = "mannanethu" /\ password = "maN@n&t"

\* The path the router settles on: "/login" renders Login, "/" renders
\* ProtectedRoute, which redirects to "/login" unless isAuthenticated, and
\* any other path redirects to "/" or "/login" by isAuthenticated.
routeOf(path, authenticated) ==
    IF path = "/login" THEN "/login"
    ELSE IF authenticated THEN "/" ELSE "/login"

\* QuotationApp is on screen
FormShown == location = "/"

formState == <<quotationData, newItem, customUnit, errors, baseQuoteNo, snackbar>>

\* QuotationApp is constructed when its route is entered and dropped when
\* it is left: its useState values are the initial ones afterwards
remounted(path) ==
    IF path = location
    THEN UNCHANGED formState
    ELSE /\ quotationData' = FreshQuotation
         /\ newItem' = FreshItem
         /\ customUnit' = <<>>
         /\ errors' = NoErrors
         /\ baseQuoteNo' = <<>>
         /\ snackbar' = FreshSnackbar

\* onChange of the Username and Password fields of Login
setUsername(value) ==
    /\ location = "/login"
    /\ login' = [login EXCEPT !.username = value]
    /\ lastOp' = "edit"
    /\ lastArg' = NoArg
    /\ UNCHANGED <<formState, exports, uploads, containerWidth, downloads, result,
                   cookie, isAuthenticated, location>>

setPassword(value) ==
    /\ location = "/login"
    /\ login' = [login EXCEPT !.password = value]
    /\ lastOp' = "edit"
    /\ lastArg' = NoArg
    /\ UNCHANGED <<formState, exports, uploads, containerWidth, downloads, result,
                   cookie, isAuthenticated, location>>

\* handleLogin of Login, with the onLogin of App it calls
handleLogin ==
    /\ location = "/login"
    /\ IF credentialsOk(login.username, login.password)
       THEN /\ cookie' = "true"
            /\ isAuthenticated' = TRUE
            /\ location' = "/"
            /\ login' = FreshLogin
            /\ remounted("/")
            /\ lastOp' = "handleLogin:ok"
       ELSE /\ login' = [login EXCEPT !.error = MsgInvalidLogin]
            /\ lastOp' = "handleLogin:failed"
            /\ UNCHANGED <<formState, cookie, isAuthenticated, location>>
    /\ lastArg' = NoArg
    /\ UNCHANGED <<exports, uploads, containerWidth, downloads, result>>

\* handleLogout of QuotationApp: the cookie is removed and the router is
\* sent to "/login"; the isAuthenticated state of App is not touched
handleLogout ==
    /\ FormShown
    /\ cookie' = NoCookie
    /\ location' = "/login"
    /\ login' = FreshLogin
    /\ remounted("/login")
    /\ lastOp' = "handleLogout"
    /\ lastArg' = NoArg
    /\ UNCHANGED <<isAuthenticated, exports, uploads, containerWidth, downloads,
                   result>>

NavLabel(path) ==
    CASE path = "/"      -> "navigate:/"
      [] path = "/login" -> "navigate:/login"
      [] OTHER           -> "navigate:*"

\* the browser's back or forward button takes the router to a path: the
\* page is not loaded again
navigateTo(path) ==
    /\ location' = routeOf(path, isAuthenticated)
    /\ login' = IF location' = location THEN login ELSE FreshLogin
    /\ remounted(location')
    /\ lastOp' = NavLabel(path)
    /\ lastArg' = NoArg
    /\ UNCHANGED <<cookie, isAuthenticated, exports, uploads, containerWidth,
                   downloads, result>>

\* the page is loaded again: App is constructed from the cookie
reload ==
    /\ isAuthenticated' = (cookie = "true")
    /\ location' = routeOf(location, isAuthenticated')
    /\ login' = FreshLogin
    /\ quotationData' = FreshQuotation
    /\ newItem' = FreshItem
    /\ customUnit' = <<>>
    /\ errors' = NoErrors
    /\ baseQuoteNo' = <<>>
    /\ snackbar' = FreshSnackbar
    /\ lastOp' = "reload"
    /\ lastArg' = NoArg
    /\ UNCHANGED <<cookie, exports, uploads, containerWidth, downloads, result>>

\* the browser drops the cookie when it expires after a day, or the user
\* edits it
cookieChanged(value) ==
    /\ cookie # value
    /\ cookie' = value
    /\ lastOp' = "cookieChanged"
    /\ lastArg' = NoArg
    /\ UNCHANGED <<formState, exports, uploads, containerWidth, downloads, result,
                   isAuthenticated, location, login>>

----------------------------------------------------------------------------
(* The form: every handler, driven by a small set of typed values *)

Acme       == <<"A", "c", "m", "e">>
Kochi      == <<"K", "o", "c", "h", "i">>
Mobile5    == <<"1", "2", "3", "4", "5">>
Mobile10   == <<"9", "8", "7", "6", "5", "4", "3", "2", "1", "0">>
Nine       == <<"9">>
Pipe       == <<"P", "i", "p", "e">>
MTR        == <<"M", "T", "R">>
BOX        == <<"B", "O", "X">>

\* files on disk that were not produced in this session
NoSubjectPdf    == [kind |-> "pdf", name |-> <<>>, title |-> <<>>, loadable |-> TRUE,
                    subject |-> NoSubject]
EmptySubjectPdf == [NoSubjectPdf EXCEPT !.subject.present = TRUE]
GarbagePdf      == [NoSubjectPdf EXCEPT !.subject.present = TRUE,
                                        !.subject.empty = FALSE]
NotAPdf         == [NoSubjectPdf EXCEPT !.loadable = FALSE]

ForeignFiles == {NoSubjectPdf, EmptySubjectPdf, GarbagePdf, NotAPdf}

DownloadedPdfs ==
    {downloads[i] : i \in {j \in 1..Len(downloads) : downloads[j].kind = "pdf"}}

\* Filling in the required fields, entering an item, exporting and
\* submitting.
MaxFormItems == 1

TypedValues(field) ==
    CASE field = "customerName" -> {Acme}
      [] field = "address"      -> {Kochi}
      [] field = "mobile"       -> {Mobile10}
      [] field = "quoteNo"      -> {Nine}
      [] OTHER                  -> {}

Next ==
    \/ \E field \in TextFields : \E value \in TypedValues(field) :
          handleCustomerChange(field, value)
    \/ handleItemChange("description", Pipe)
    \/ handleItemChange("qty", 3 * Scale)
    \/ handleItemChange("rate", 100 * Scale)
    \/ Len(quotationData.items) < MaxFormItems /\ addItem
    \/ CanDownload /\ exportToExcel
    \/ CanStartExport /\ exportToPDF
    \/ \E i \in 1..Len(exports) : canvasReady(i)
    \/ \E i \in 1..Len(exports) : exportDone(i)
    \/ CanSubmit /\ handleSubmit

Spec == Init /\ [][Next]_vars

\* Submitting a quotation loaded from a PDF of an earlier session, with the
\* scratch in use.
PipeItem ==
    [description |-> Pipe, qty |-> 3 * Scale, unit |-> MTR, rate |-> 100 * Scale,
     amount |-> 300 * Scale]

EarlierPdf ==
    pdfOf([FreshQuotation EXCEPT !.customerName = Acme, !.address = Kochi,
                                 !.mobile = Mobile10, !.quoteNo = QT9,
                                 !.items = <<PipeItem>>])

NextSubmit ==
    \/ handleFileUpload(EarlierPdf)
    \/ \E i \in 1..Len(uploads) : uploadDone(i)
    \/ \E value \in {<<>>, ABC} : handleCustomerChange("quoteNo", value)
    \/ handleItemChange("description", Pipe)
    \/ handleItemChange("unit", Custom)
    \/ handleItemChange("qty", 3 * Scale)
    \/ handleItemChange("rate", 100 * Scale)
    \/ setCustomUnit(BOX)
    \/ \E i \in 1..Len(exports) : canvasReady(i)
    \/ \E i \in 1..Len(exports) : exportDone(i)
    \/ CanSubmit /\ handleSubmit

SpecSubmit == Init /\ [][NextSubmit]_vars

\* Entering, adding and removing items; removeItem is also called with the
\* indices just outside the list.
MaxItems == 2

NextItems ==
    \/ handleCustomerChange("customerName", Acme)
    \/ \E value \in {<<>>, Pipe} : handleItemChange("description", value)
    \/ \E value \in {MTR, Custom} : handleItemChange("unit", value)
    \/ \E value \in {0, 3 * Scale} : handleItemChange("qty", value)
    \/ \E value \in {0, 100 * Scale} : handleItemChange("rate", value)
    \/ setCustomUnit(BOX)
    \/ Len(quotationData.items) < MaxItems /\ addItem
    \/ \E index \in -1..Len(quotationData.items) : removeItem(index)
    \/ closeSnackbar

SpecItems == Init /\ [][NextItems]_vars

\* Editing the scratch, with quantities and rates whose product is a
\* decimal tie (1.15 * 0.10, 0.23 * 0.50), is not one (0.23 * 0.07) or is
\* negative.
QtySamples == {0, 23, 115, -3 * Scale}

RateSamples == {0, 7, 10, 50}

NextScratch ==
    \/ \E value \in {<<>>, Pipe} : handleItemChange("description", value)
    \/ \E value \in {<<>>, MTR, Custom} : handleItemChange("unit", value)
    \/ \E value \in QtySamples : handleItemChange("qty", value)
    \/ \E value \in RateSamples : handleItemChange("rate", value)
    \/ setCustomUnit(BOX)

SpecScratch == Init /\ [][NextScratch]_vars

\* Entering items with these quantities and rates, adding and removing
\* them, and reading the grand total.
MaxAmountItems == 2

NextAmount ==
    \/ handleItemChange("description", Pipe)
    \/ \E value \in QtySamples : handleItemChange("qty", value)
    \/ \E value \in RateSamples : handleItemChange("rate", value)
    \/ Len(quotationData.items) < MaxAmountItems /\ addItem
    \/ \E index \in 0..(Len(quotationData.items) - 1) : removeItem(index)

SpecAmount == Init /\ [][NextAmount]_vars

\* Editing the fields of the customer block, before and after a validation
\* pass has reported errors.
EditValues(field) ==
    CASE field = "customerName" -> {<<>>, Acme}
      [] field = "address"      -> {Kochi}
      [] field = "mobile"       -> {Mobile10}
      [] field = "quoteNo"      -> {<<>>, Nine, QT9}
      [] field = "salesMan"     -> {Acme}
      [] OTHER                  -> {}

NextEdit ==
    \/ \E field \in TextFields : \E value \in EditValues(field) :
          handleCustomerChange(field, value)
    \/ CanDownload /\ exportToExcel

SpecEdit == Init /\ [][NextEdit]_vars

\* Exporting the sheet of a quotation of two items, with the title switched
\* on and off, the requirements typed and cleared, and items removed.
BoxItem ==
    [description |-> BOX, qty |-> 2 * Scale, unit |-> BOX,
     rate |-> 150000 * Scale, amount |-> 300000 * Scale]

TwoItemPdf ==
    pdfOf([FreshQuotation EXCEPT !.customerName = Acme, !.address = Kochi,
                                 !.mobile = Mobile10, !.quoteNo = QT9,
                                 !.items = <<PipeItem, BoxItem>>])

NextExcel ==
    \/ handleFileUpload(TwoItemPdf)
    \/ \E i \in 1..Len(uploads) : uploadDone(i)
    \/ \E checked \in BOOLEAN : handleToggleChange(checked)
    \/ \E value \in {<<>>, Pipe} : handleCustomerChange("Requirements", value)
    \/ \E index \in 0..(Len(quotationData.items) - 1) : removeItem(index)
    \/ CanDownload /\ exportToExcel

SpecExcel == Init /\ [][NextExcel]_vars

\* Exports that overlap: the Export button is clicked again, or submit
\* starts an export, while an earlier export is still in flight.
MaxOverlap == 2

CanOverlap == Len(exports) + Len(downloads) < MaxOverlap

NextOverlap ==
    \/ handleFileUpload(EarlierPdf)
    \/ \E i \in 1..Len(uploads) : uploadDone(i)
    \/ handleCustomerChange("quoteNo", Nine)
    \/ CanOverlap /\ exportToPDF
    \/ \E i \in 1..Len(exports) : canvasReady(i)
    \/ \E i \in 1..Len(exports) : canvasFailed(i)
    \/ \E i \in 1..Len(exports) : exportDone(i)
    \/ (validateFields(quotationData) => CanOverlap) /\ handleSubmit

SpecOverlap == Init /\ [][NextOverlap]_vars

\* Logging in and out, moving between the routes, and using the form
\* while it is on screen.
Usernames == {"mannanethu", "admin"}

Passwords == {"maN@n&t", "man@n&t"}

Paths == {"/", "/login", "/other"}

NextAuth ==
    \/ \E value \in Usernames : setUsername(value)
    \/ \E value \in Passwords : setPassword(value)
    \/ handleLogin
    \/ handleLogout
    \/ \E path \in Paths : navigateTo(path)
    \/ reload
    \/ \E value \in {NoCookie, "false"} : cookieChanged(value)
    \/ FormShown /\ handleCustomerChange("customerName", Acme)

SpecAuth == Init /\ [][NextAuth]_vars

\* Exporting a PDF and loading files.
NextImport ==
    \/ \E field \in {"customerName", "address", "mobile", "quoteNo"} :
          \E value \in TypedValues(field) :
             handleCustomerChange(field, value)
    \/ handleCustomerChange("date", <<>>)
    \/ \E checked \in BOOLEAN : handleToggleChange(checked)
    \/ handleItemChange("description", Pipe)
    \/ CanStartExport /\ exportToPDF
    \/ \E i \in 1..Len(exports) : canvasReady(i)
    \/ \E i \in 1..Len(exports) : exportDone(i)
    \/ \E file \in ForeignFiles \cup DownloadedPdfs : handleFileUpload(file)
    \/ \E i \in 1..Len(uploads) : uploadDone(i)

SpecImport == Init /\ [][NextImport]_vars

\* Loading PDFs written by other hands: their subject parses to a record
\* that lacks fields, holds an empty date, or holds an item whose amount is
\* not the product of its quantity and rate.
blobPdf(fields) ==
    [kind |-> "pdf", name |-> <<>>, title |-> <<>>, loadable |-> TRUE,
     subject |-> stringify(fields)]

NameOnlyPdf == blobPdf([customerName |-> Acme, showTitle |-> FALSE])

QuoteOnlyPdf == blobPdf([quoteNo |-> QT9, validDays |-> <<"3", "0">>])

EmptyDatePdf ==
    blobPdf([FreshQuotation EXCEPT !.customerName = Acme, !.quoteNo = QT9,
                                   !.date = <<>>, !.items = <<PipeItem>>])

TamperedItem == [PipeItem EXCEPT !.amount = Scale]

TamperedPdf ==
    blobPdf([customerName |-> Acme, quoteNo |-> QT9, items |-> <<TamperedItem>>])

CraftedPdfs == {NameOnlyPdf, QuoteOnlyPdf, EmptyDatePdf, TamperedPdf, EarlierPdf}

NextLoad ==
    \/ handleCustomerChange("quoteNo", Nine)
    \/ handleItemChange("description", Pipe)
    \/ \E file \in CraftedPdfs : handleFileUpload(file)
    \/ \E i \in 1..Len(uploads) : uploadDone(i)
    \/ \E index \in 0..(Len(quotationData.items) - 1) : removeItem(index)

SpecLoad == Init /\ [][NextLoad]_vars

\* Importing files whose metadata parses but is not a quotation: the JSON
\* number 7, and an object whose items are not line items.
NumberPdf ==
    [kind |-> "pdf", name |-> <<>>, title |-> <<>>, loadable |-> TRUE,
     subject |-> [present |-> TRUE, empty |-> FALSE, json |-> TRUE,
                  value |-> [type |-> "number", fields |-> <<>>]]]

MalformedItemsPdf ==
    blobPdf([customerName |-> Acme, quoteNo |-> QT9,
             items |-> <<[description |-> Pipe]>>])

ShapeFiles == {NumberPdf, MalformedItemsPdf, EarlierPdf, NotAPdf}

NextShape ==
    \/ \E file \in ShapeFiles : handleFileUpload(file)
    \/ \E i \in 1..Len(uploads) : uploadDone(i)
    \/ \E value \in {Acme, <<>>} : handleCustomerChange("customerName", value)
    \/ handleCustomerChange("quoteNo", Nine)
    \/ \E index \in 0..(Len(quotationData.items) - 1) : removeItem(index)

SpecShape == Init /\ [][NextShape]_vars

\* Quote numbers typed, cleared, imported and incremented by submits; the
\* items come from the imported file, and the exports that the submits
\* start are left in flight.
UnnumberedPdf ==
    blobPdf([customerName |-> Acme, address |-> Kochi, mobile |-> Mobile10,
             items |-> <<PipeItem>>, showTitle |-> FALSE])

BaseFiles == {EarlierPdf, UnnumberedPdf, NoSubjectPdf}

NextBase ==
    \/ \E file \in BaseFiles : handleFileUpload(file)
    \/ \E i \in 1..Len(uploads) : uploadDone(i)
    \/ \E value \in {<<>>, Nine, ABC} : handleCustomerChange("quoteNo", value)
    \/ CanSubmit /\ handleSubmit

SpecBase == Init /\ [][NextBase]_vars

\* A series of submits: the quote number is typed before the first submit
\* and left alone afterwards; after each submit the required fields are
\* typed again and an item is entered again.  The exports that the submits
\* start are left in flight, one for each submit.
MaxSubmits == 3

NinetyNine == <<"9", "9">>

SeriesValues(field) ==
    CASE field = "customerName" -> {Acme}
      [] field = "address"      -> {Kochi}
      [] field = "mobile"       -> {Mobile10}
      [] field = "quoteNo"      ->
            IF exports = <<>> THEN {<<>>, Nine, NinetyNine, FortyTwo} ELSE {}
      [] OTHER                  -> {}

NextSeries ==
    \/ \E field \in TextFields : \E value \in SeriesValues(field) :
          handleCustomerChange(field, value)
    \/ handleItemChange("description", Pipe)
    \/ handleItemChange("qty", 3 * Scale)
    \/ handleItemChange("rate", 100 * Scale)
    \/ Len(quotationData.items) < MaxFormItems /\ addItem
    \/ (validateFields(quotationData) => Len(exports) < MaxSubmits) /\ handleSubmit

SpecSeries == Init /\ [][NextSeries]_vars

\* A validation pass, by either export or by submit, over a form filled in
\* with any of these texts, with or without an item.
Space == <<" ">>

NameTexts == {<<>>, Space, Acme, Space \o Acme}

AddressTexts == {<<>>, Space, Kochi}

MobileTexts ==
    {<<>>, Space, Mobile5, Mobile10, Space \o Mobile10 \o Space,
     Mobile10 \o <<"1">>, SubSeq(Mobile10, 1, 9), SubSeq(Mobile10, 1, 9) \o <<"x">>,
     SubSeq(Mobile10, 1, 5) \o Space \o SubSeq(Mobile10, 6, 10)}

QuoteNoTexts == {<<>>, Space, Nine}

InitValidate ==
    /\ InitOther
    /\ \E n \in NameTexts, a \in AddressTexts, m \in MobileTexts, q \in QuoteNoTexts :
         \E items \in {<<>>, <<PipeItem>>} :
         /\ quotationData = [FreshQuotation EXCEPT !.customerName = n, !.address = a,
                                                   !.mobile = m, !.quoteNo = q,
                                                   !.items = items]
         /\ baseQuoteNo = q

NextValidate ==
    \/ handleItemChange("description", Pipe)
    \/ CanDownload /\ exportToExcel
    \/ CanStartExport /\ exportToPDF
    \/ CanSubmit /\ handleSubmit
    \/ \E i \in 1..Len(exports) : canvasReady(i)
    \/ \E i \in 1..Len(exports) : exportDone(i)

SpecValidate == InitValidate /\ [][NextValidate]_vars

----------------------------------------------------------------------------
(* Claims about the quote-number increment *)

AllDigits(s) == \A i \in 1..Len(s) : IsDigit(s[i])

\* the ways to read s as a prefix p followed by a maximal non-empty
\* trailing run r of decimal digits
Splits(s) ==
    {k \in 0..(Len(s) - 1) :
        /\ AllDigits(SubSeq(s, k + 1, Len(s)))
        /\ (k = 0 \/ ~IsDigit(s[k]))}

RECURSIVE Zeros(_)
Zeros(n) == IF n <= 0 THEN <<>> ELSE <<"0">> \o Zeros(n - 1)

ZeroPad(ds, width) == Zeros(width - Len(ds)) \o ds

NoLeadingZero(r) == Len(r) = 1 \/ r[1] # "0"

\* C1 (as claimed): for a non-empty base and a current quote number made of
\* a prefix and a zero-padded trailing digit run, the next quote number is
\* the same prefix followed by the incremented number at the same digit
\* width, whenever the increment does not need an extra digit.
C1_SameWidthIncrement ==
    (result.called /\ baseQuoteNo # <<>>) =>
        LET s == quotationData.quoteNo IN
        \A k \in Splits(s) :
            LET r    == SubSeq(s, k + 1, Len(s))
                next == toString(parseInt(r) + 1)
            IN  Len(next) <= Len(r) =>
                    result.value = SubSeq(s, 1, k) \o ZeroPad(next, Len(r))

\* C2: for a non-empty base and a current quote number ending in a maximal
\* digit run without leading zeros of value n, the next quote number is the
\* non-digit prefix followed by the decimal text of n+1: "42" gives "43",
\* "QT-9" gives "QT-10".
C2_IncrementKeepsPrefix ==
    (result.called /\ baseQuoteNo # <<>>) =>
        LET s == quotationData.quoteNo
            v == result.value
        IN  /\ \A k \in Splits(s) :
                  LET r == SubSeq(s, k + 1, Len(s)) IN
                  NoLeadingZero(r) =>
                      /\ Len(v) > k
                      /\ SubSeq(v, 1, k) = SubSeq(s, 1, k)
                      /\ AllDigits(SubSeq(v, k + 1, Len(v)))
                      /\ NoLeadingZero(SubSeq(v, k + 1, Len(v)))
                      /\ parseInt(SubSeq(v, k + 1, Len(v))) = parseInt(r) + 1
            /\ (s = FortyTwo => v = FortyThree)
            /\ (s = QT9 => v = QT10)

C2_Witness ==
    result.called /\ quotationData.quoteNo = QT9 /\ result.value = QT10

----------------------------------------------------------------------------
(* Claims about submit, validation, import and the item list *)

Ten == <<"1", "0">>

EmptyScratch ==
    [description |-> <<>>, qty |-> 0, unit |-> <<>>, rate |-> 0, amount |-> 0]

\* C4: after a submit whose validation passes, the quotation holds the
\* fresh-session defaults except that quoteNo is the next quote number of
\* the one just submitted; the base quote number is that same value, the
\* error map is empty, and the scratch and the custom-unit text are reset.
C4_SubmitResets ==
    [][lastOp' = "handleSubmit:submitted" =>
          /\ quotationData' =
               [customerName |-> <<>>, address |-> <<>>, mobile |-> <<>>,
                quoteNo |-> getNextQuoteNo(baseQuoteNo, quotationData.quoteNo),
                date |-> Today, validDays |-> <<"7">>, Requirements |-> <<>>,
                items |-> <<>>, preparedBy |-> <<>>, salesMan |-> <<>>,
                showTitle |-> TRUE]
          /\ (quotationData.quoteNo = Nine => quotationData'.quoteNo = Ten)
          /\ (quotationData.quoteNo = QT9 => quotationData'.quoteNo = QT10)
          /\ baseQuoteNo' = quotationData'.quoteNo
          /\ Keys(errors') = {}
          /\ newItem' = EmptyScratch
          /\ customUnit' = <<>>]_vars

C4_Witness ==
    /\ lastOp = "handleSubmit:submitted"
    /\ quotationData.quoteNo = QT10
    /\ baseQuoteNo = QT10
    /\ Len(exports) = 1
    /\ exports[1].data.customerName = Acme
    /\ exports[1].data.items = <<PipeItem>>
    /\ exports[1].pc = "html2canvas"

\* C5 (as claimed): validation errors are recoverable.  Once every field is
\* valid again the export controls are available, and so is submit when
\* there is an item.
C5_ValidFormCanExport ==
    validateFields(quotationData) =>
        /\ ExportEnabled
        /\ (quotationData.items # <<>> => SubmitEnabled)

OnlySpaces(s) == \A i \in 1..Len(s) : s[i] = " "

\* s is ten digits, with white space before and after at most
TenDigitsPadded(s) ==
    \E i \in 1..Len(s) :
        /\ i + 9 <= Len(s)
        /\ \A j \in 1..Len(s) :
              IF j >= i /\ j <= i + 9 THEN IsDigit(s[j]) ELSE s[j] = " "

AfterValidation ==
    lastOp \in {"exportToExcel:invalid", "exportToExcel:done",
                "exportToPDF:invalid", "exportToPDF:started"}

\* C6: a validation pass reports every violation at once: customerName,
\* address and quoteNo have an entry iff they are empty after trimming,
\* mobile iff its trimmed text is not exactly 10 digits; the pass succeeds
\* iff there is no entry.
C6_AllViolationsReported ==
    AfterValidation =>
        /\ ("customerName" \in Keys(errors)) <=> OnlySpaces(quotationData.customerName)
        /\ ("address" \in Keys(errors)) <=> OnlySpaces(quotationData.address)
        /\ ("quoteNo" \in Keys(errors)) <=> OnlySpaces(quotationData.quoteNo)
        /\ ("mobile" \in Keys(errors)) <=> ~TenDigitsPadded(quotationData.mobile)
        /\ \A k \in Keys(errors) : errors[k] # Undefined
        /\ (lastOp \in {"exportToExcel:invalid", "exportToPDF:invalid"})
              <=> (Keys(errors) # {})
        /\ (/\ quotationData.customerName = <<>> /\ quotationData.address = <<>>
            /\ quotationData.quoteNo = <<>> /\ quotationData.mobile = Mobile5)
              => Cardinality(Keys(errors)) = 4
        /\ (/\ quotationData.customerName = <<>> /\ quotationData.address = <<>>
            /\ quotationData.quoteNo = <<>> /\ quotationData.mobile = Mobile10)
              => Keys(errors) = {"customerName", "address", "quoteNo"}

C6_Witness ==
    /\ lastOp = "exportToPDF:invalid"
    /\ quotationData.mobile = Mobile5
    /\ Cardinality(Keys(errors)) = 4

\* C7 (as claimed): importing a PDF exported in this session reproduces the
\* exported record, field for field, showTitle included.
C7_RoundTrip ==
    [][\A i \in 1..Len(uploads) :
          (/\ uploads' = dropAt(uploads, i)
           /\ uploads[i] \in DownloadedPdfs)
          => /\ lastOp' = "handleFileUpload:loaded"
             /\ quotationData' = uploads[i].subject.value.fields]_vars

\* the file has no subject, or its subject does not parse as a record
Unreadable(file) ==
    \/ ~file.loadable
    \/ ~file.subject.present
    \/ file.subject.empty
    \/ ~file.subject.json
    \/ file.subject.value.type # "object"

AddItemRan == lastOp' \in {"addItem:rejected", "addItem:added"}

\* C9: addItem with an empty description, a zero quantity or a zero rate
\* raises an error notification and changes neither the item list, the
\* scratch, the custom-unit text nor any other field of the quotation.
C9_AddItemRejects ==
    [][(AddItemRan /\ (newItem.description = <<>> \/ newItem.qty = 0
                        \/ newItem.rate = 0))
          => /\ lastOp' = "addItem:rejected"
             /\ snackbar'.open /\ snackbar'.severity = "error"
             /\ quotationData' = quotationData
             /\ newItem' = newItem
             /\ customUnit' = customUnit]_vars

C9_Witness ==
    /\ lastOp = "addItem:rejected"
    /\ snackbar.open /\ snackbar.severity = "error"
    /\ newItem.description = Pipe /\ newItem.qty # 0 /\ newItem.rate = 0
    /\ newItem.unit = Custom /\ customUnit = BOX
    /\ Len(quotationData.items) = 1

\* C10: addItem with a description and a non-zero quantity and rate appends
\* exactly one item carrying the scratch values, with the custom-unit text
\* as unit when the unit is "custom"; the scratch and the custom-unit text
\* are then empty.
C10_AddItemAppends ==
    [][(AddItemRan /\ newItem.description # <<>> /\ newItem.qty # 0
                   /\ newItem.rate # 0)
          => /\ lastOp' = "addItem:added"
             /\ quotationData'.items =
                   quotationData.items \o
                      <<[description |-> newItem.description,
                         qty |-> newItem.qty,
                         unit |-> IF newItem.unit = Custom THEN customUnit
                                  ELSE newItem.unit,
                         rate |-> newItem.rate,
                         amount |-> newItem.amount]>>
             /\ quotationData' = [quotationData EXCEPT !.items = quotationData'.items]
             /\ newItem' = EmptyScratch
             /\ customUnit' = <<>>]_vars

C10_Witness ==
    /\ lastOp = "addItem:added"
    /\ Len(quotationData.items) = 2
    /\ quotationData.items[1].unit = MTR
    /\ quotationData.items[2].unit = BOX
    /\ quotationData.items[2].amount = 300 * Scale
    /\ newItem = EmptyScratch /\ customUnit = <<>>

----------------------------------------------------------------------------
(* Claims about removing items, amounts and totals *)

Abs(n) == IF n < 0 THEN -n ELSE n

\* amount, in hundredths, is a hundredth nearest to the product qty * rate
NearestHundredth(amount, qty, rate) ==
    2 * Abs(Scale * amount - qty * rate) <= Scale

RECURSIVE TotalOf(_)
TotalOf(items) ==
    IF items = <<>> THEN 0 ELSE Head(items).amount + TotalOf(Tail(items))

\* C13: the grand total is the sum of the amounts of the items in the
\* list: 0 for the empty list, larger by the appended item's amount after
\* an accepted addItem, smaller by the removed item's amount after
\* removeItem.
C13_TotalIsSum ==
    [][/\ calculateTotal' = TotalOf(quotationData'.items)
       /\ (quotationData'.items = <<>> => calculateTotal' = 0)
       /\ (lastOp' = "addItem:added"
             => calculateTotal' = calculateTotal + newItem.amount)
       /\ (lastOp' = "removeItem"
             => calculateTotal' =
                   calculateTotal - quotationData.items[lastArg' + 1].amount)]_vars

C13_Witness ==
    /\ lastOp = "removeItem"
    /\ lastArg = 0
    /\ Len(quotationData.items) = 1
    /\ quotationData.items[1].amount = 12
    /\ calculateTotal = 12

----------------------------------------------------------------------------
(* Claims about login and the route guard *)

\* C14 (as claimed): the form is on screen only while the auth cookie holds
\* "true"; whenever the cookie is absent or holds something else, also right
\* after logout and without loading the page again, going to the protected
\* route ends at the login view.
C14_GuardFollowsCookie ==
    [][(lastOp' = "navigate:/" /\ cookie' # "true") => location' = "/login"]_vars

\* C15: login with the fixed credential pair sets the auth cookie to "true"
\* and puts the form on screen; login with any other pair sets the inline
\* error, leaves the cookie as it was and stays on the login view.
C15_LoginChecksCredentials ==
    [][lastOp' \in {"handleLogin:ok", "handleLogin:failed"} =>
          IF login.username = "mannanethu" /\ login.password = "maN@n&t"
          THEN /\ lastOp' = "handleLogin:ok"
               /\ cookie' = "true"
               /\ isAuthenticated'
               /\ location' = "/"
          ELSE /\ lastOp' = "handleLogin:failed"
               /\ login'.error = "Invalid username or password"
               /\ cookie' = cookie
               /\ isAuthenticated' = isAuthenticated
               /\ location' = "/login"]_vars

C15_Witness ==
    /\ lastOp = "handleLogin:failed"
    /\ login.username = "mannanethu" /\ login.password = "man@n&t"
    /\ login.error = MsgInvalidLogin
    /\ cookie = NoCookie
    /\ ~isAuthenticated
    /\ location = "/login"

----------------------------------------------------------------------------
(* Claims about failed validation and import defaults *)

HandlerValidated ==
    lastOp' \in {"exportToExcel:invalid", "exportToExcel:done",
                 "exportToPDF:invalid", "exportToPDF:started",
                 "handleSubmit:invalid", "handleSubmit:submitted"}

SomeViolation(q) ==
    \/ OnlySpaces(q.customerName)
    \/ OnlySpaces(q.address)
    \/ OnlySpaces(q.quoteNo)
    \/ ~TenDigitsPadded(q.mobile)

\* C16: when validation fails, the spreadsheet export, the PDF export and
\* submit each stop: nothing is downloaded and no export is started, an
\* error notification is raised, the error map holds the violations, and
\* the quotation, the base quote number and the scratch are unchanged.
C16_InvalidAborts ==
    [][(HandlerValidated /\ SomeViolation(quotationData)) =>
          /\ lastOp' \in {"exportToExcel:invalid", "exportToPDF:invalid",
                          "handleSubmit:invalid"}
          /\ downloads' = downloads
          /\ exports' = exports
          /\ containerWidth' = containerWidth
          /\ snackbar'.open /\ snackbar'.severity = "error"
          /\ ("customerName" \in Keys(errors')) <=> OnlySpaces(quotationData.customerName)
          /\ ("address" \in Keys(errors')) <=> OnlySpaces(quotationData.address)
          /\ ("quoteNo" \in Keys(errors')) <=> OnlySpaces(quotationData.quoteNo)
          /\ ("mobile" \in Keys(errors')) <=> ~TenDigitsPadded(quotationData.mobile)
          /\ quotationData' = quotationData
          /\ baseQuoteNo' = baseQuoteNo
          /\ newItem' = newItem
          /\ customUnit' = customUnit]_vars

C16_Witness ==
    /\ lastOp = "handleSubmit:invalid"
    /\ quotationData.items = <<PipeItem>>
    /\ quotationData.customerName = Acme
    /\ quotationData.mobile = Mobile5
    /\ newItem.description = Pipe
    /\ Keys(errors) = {"mobile"}
    /\ snackbar.severity = "error"
    /\ downloads = <<>> /\ exports = <<>>

QuotationFields ==
    {"customerName", "address", "mobile", "quoteNo", "date", "validDays",
     "Requirements", "items", "preparedBy", "salesMan", "showTitle"}

SessionDefaults ==
    [customerName |-> <<>>, address |-> <<>>, mobile |-> <<>>, quoteNo |-> <<>>,
     date |-> Today, validDays |-> <<"7">>, Requirements |-> <<>>, items |-> <<>>,
     preparedBy |-> <<>>, salesMan |-> <<>>, showTitle |-> TRUE]

\* C17 (as claimed): after a successful import every field missing from the
\* decoded record holds its fresh-session default, every field present
\* holds the decoded value, and the base quote number is the loaded quote
\* number when present and empty otherwise.
C17_ImportDefaults ==
    [][\A i \in 1..Len(uploads) :
          (/\ uploads' = dropAt(uploads, i)
           /\ lastOp' = "handleFileUpload:loaded"
           /\ uploads[i].subject.value.type = "object")
          => LET blob == uploads[i].subject.value.fields IN
             /\ \A k \in QuotationFields :
                   quotationData'[k] =
                      IF k \in DOMAIN blob THEN blob[k] ELSE SessionDefaults[k]
             /\ baseQuoteNo' =
                   IF "quoteNo" \in DOMAIN blob THEN blob.quoteNo ELSE <<>>]_vars

----------------------------------------------------------------------------
(* Claims about the items of the list *)

\* C18 (as claimed): in every reachable state every item of the list has a
\* non-empty description, a quantity >= 0 and a rate >= 0.
C18_ItemsWellFormed ==
    \A i \in 1..Len(quotationData.items) :
        /\ quotationData.items[i].description # <<>>
        /\ quotationData.items[i].qty >= 0
        /\ quotationData.items[i].rate >= 0

\* C19 (as claimed): in every reachable state, after any field edits,
\* addItem, removeItem and import, the amount of every item of the list is
\* the product of its quantity and rate rounded to two decimals.
C19_AmountDerived ==
    \A i \in 1..Len(quotationData.items) :
        NearestHundredth(quotationData.items[i].amount,
                         quotationData.items[i].qty,
                         quotationData.items[i].rate)

----------------------------------------------------------------------------
(* Claims about submit and the export it starts *)

\* C20: submit does not wait for the PDF export it starts.  When submit
\* returns, that export holds the submitted record and is still suspended
\* in its rasterization, nothing has been downloaded, and the quotation is
\* already reset; the rasterization completes over the reset form.
C20_SubmitDoesNotWait ==
    [][lastOp' = "handleSubmit:submitted" =>
          /\ Len(exports') = Len(exports) + 1
          /\ exports'[Len(exports')].pc = "html2canvas"
          /\ exports'[Len(exports')].data = quotationData
          /\ downloads' = downloads
          /\ quotationData'.customerName = <<>>
          /\ quotationData'.items = <<>>
          /\ quotationData' # quotationData]_vars

C20_Witness ==
    /\ lastOp = "exportToPDF:canvas"
    /\ Len(exports) = 1
    /\ exports[1].pc = "save"
    /\ exports[1].data.customerName = Acme
    /\ exports[1].data.items = <<PipeItem>>
    /\ quotationData.customerName = <<>>
    /\ quotationData.items = <<>>
    /\ quotationData.quoteNo = QT10
    /\ downloads = <<>>

----------------------------------------------------------------------------
(* Claims about overlapping exports *)

\* C21: exports do not exclude each other.  While an export is in flight
\* the Export button still starts another one, which joins the earlier
\* ones without disturbing them, and every export that completes downloads
\* the document of its own record.
C21_ExportsOverlap ==
    /\ []((Keys(errors) = {} /\ exports # <<>>) => ENABLED exportToPDF)
    /\ [][/\ (lastOp' = "exportToPDF:started"
               => /\ Len(exports') = Len(exports) + 1
                  /\ SubSeq(exports', 1, Len(exports)) = exports
                  /\ exports'[Len(exports')].data = quotationData)
          /\ (lastOp' = "exportToPDF:done"
               => \E i \in 1..Len(exports) :
                     /\ exports' = SubSeq(exports, 1, i - 1)
                                     \o SubSeq(exports, i + 1, Len(exports))
                     /\ Len(downloads') = Len(downloads) + 1
                     /\ SubSeq(downloads', 1, Len(downloads)) = downloads
                     /\ downloads'[Len(downloads')].name = exports[i].data.quoteNo
                     /\ downloads'[Len(downloads')].subject.value.fields
                           = exports[i].data)]_vars

C21_Witness ==
    /\ Len(exports) = 2
    /\ exports[1].pc = "html2canvas"
    /\ exports[2].pc = "html2canvas"
    /\ exports[1].data.quoteNo = QT9
    /\ exports[2].data.quoteNo = Nine
    /\ lastOp = "exportToPDF:started"

----------------------------------------------------------------------------
(* Claims about field edits *)

\* C22: an edit of quoteNo records the typed value as the base quote
\* number only when no base is recorded yet, and every later edit leaves
\* the base alone.  An edit of any field removes the validation message of
\* that field only: the other fields' errors and all other fields of the
\* quotation are unchanged.
C22_EditField ==
    [][lastOp' = "edit" =>
          \E field \in TextFields :
             /\ quotationData' =
                   [quotationData EXCEPT ![field] = quotationData'[field]]
             /\ (field \in ErrorFields => errors'[field] \in {Absent, Undefined})
             /\ \A k \in ErrorFields \ {field} : errors'[k] = errors[k]
             /\ baseQuoteNo' =
                   IF field = "quoteNo" /\ baseQuoteNo = <<>>
                   THEN quotationData'.quoteNo
                   ELSE baseQuoteNo]_vars

C22_Witness ==
    /\ lastOp = "edit"
    /\ quotationData.customerName = Acme
    /\ errors.customerName = Undefined
    /\ errors.mobile = MsgMobileRequired
    /\ errors.address = MsgAddressRequired
    /\ quotationData.quoteNo = QT9
    /\ baseQuoteNo = Nine

\* C23: the rows of the sheet written by exportToExcel hold the title row
\* exactly when showTitle is set, and a requirements row exactly when the
\* requirements text is not empty; the rows of the items stand between the
\* row of column headers and the grand-total row, one for each item, in
\* the order of the item list.
SheetWritten == downloads[Len(downloads)].rows

HasTitleRow(rows) == \E i \in 1..Len(rows) : rows[i] = <<Fixed("QUOTATION")>>

HasRequirementsRow(rows) ==
    \E i \in 1..Len(rows) : rows[i][1] = Fixed("Requirements:")

ShowsItem(row, item) ==
    /\ Len(row) = 5
    /\ row[1] = TextCell(item.description)
    /\ row[2] = NumCell(item.qty)
    /\ row[3] = TextCell(item.unit)
    /\ row[4] = NumCell(item.rate)
    /\ row[5].kind = "text"

ItemRowsInPlace(rows, items) ==
    \E h \in 1..Len(rows) :
       /\ rows[h][1] = Fixed("Description of Goods")
       /\ h + Len(items) + 1 \in 1..Len(rows)
       /\ rows[h + Len(items) + 1][1] = Fixed("GRAND TOTAL")
       /\ \A j \in 1..Len(items) : ShowsItem(rows[h + j], items[j])

C23_SheetRows ==
    lastOp = "exportToExcel:done" =>
       /\ HasTitleRow(SheetWritten) <=> quotationData.showTitle
       /\ HasRequirementsRow(SheetWritten) <=> quotationData.Requirements # <<>>
       /\ ItemRowsInPlace(SheetWritten, quotationData.items)

\* C24: no row of the sheet written by exportToExcel is entirely empty:
\* every row has a cell that is not the empty string.
C24_NoEmptyRow ==
    \A d \in 1..Len(downloads) :
       downloads[d].kind = "xlsx" =>
          \A r \in 1..Len(downloads[d].rows) :
             \E c \in 1..Len(downloads[d].rows[r]) :
                ~IsEmptyString(downloads[d].rows[r][c])

\* C24, witness: a sheet was written for a quotation with no salesperson,
\* no requirements and no items: the array literal held twenty-five rows,
\* seven of them blank, and the sheet holds the other eighteen
C24_Witness ==
    /\ lastOp = "exportToExcel:done"
    /\ quotationData.items = <<>>
    /\ quotationData.Requirements = <<>>
    /\ quotationData.showTitle
    /\ Len(excelRows(quotationData, calculateTotal)) = 25
    /\ Len(SheetWritten) = 18

\* C25 (as claimed): an import of a file whose metadata parses but is not
\* a record, or whose items are not a sequence of line items, fails with an
\* error and leaves the quotation unchanged; so the items of the quotation
\* are a sequence of line items in every state.
ItemFields == {"description", "qty", "unit", "rate", "amount"}

IsItemList(items) == \A i \in 1..Len(items) : DOMAIN items[i] = ItemFields

Parses(file) ==
    file.loadable /\ file.subject.present /\ ~file.subject.empty
    /\ file.subject.json

WrongShape(file) ==
    /\ Parses(file)
    /\ \/ file.subject.value.type # "object"
       \/ /\ "items" \in DOMAIN file.subject.value.fields
          /\ ~IsItemList(file.subject.value.fields.items)

C25_WrongShapeRejected ==
    /\ [][\A i \in 1..Len(uploads) :
             (uploads' = dropAt(uploads, i) /\ WrongShape(uploads[i]))
             => /\ lastOp' = "handleFileUpload:error"
                /\ snackbar'.open /\ snackbar'.severity = "error"
                /\ quotationData' = quotationData]_vars
    /\ [](IsItemList(quotationData.items))

\* C26: in every reachable state a quote number that is not empty comes
\* with a recorded base quote number that is not empty; so a submit that
\* passes validation never leaves the empty quote number.
C26_QuoteNoHasBase ==
    /\ [](quotationData.quoteNo # <<>> => baseQuoteNo # <<>>)
    /\ [][lastOp' = "handleSubmit:submitted" => quotationData'.quoteNo # <<>>]_vars

\* C26, witness: a file without a quote number was imported, which emptied
\* the base; the quote number was typed and submitted, and the submit left
\* the next number in both
C26_Witness ==
    /\ lastOp = "handleSubmit:submitted"
    /\ quotationData.quoteNo = <<"1", "0">>
    /\ baseQuoteNo = <<"1", "0">>
    /\ snackbar.message = MsgPdfLoaded
    /\ Len(exports) = 1
    /\ ~exports[1].data.showTitle
    /\ exports[1].data.quoteNo = Nine

\* C28: the document of the export that a submit starts holds, in its
\* metadata, its title and its file name, the record and the quote number
\* that were submitted: the export takes the record as it is when submit is
\* invoked, which is neither the reset record nor the next quote number,
\* keeps it whatever happens to the form meanwhile, and writes the document
\* from it.
C28_SubmittedRecordExported ==
    [][/\ lastOp' = "handleSubmit:submitted" =>
             LET started == exports'[Len(exports')] IN
             /\ Len(exports') = Len(exports) + 1
             /\ started.data = quotationData
             /\ started.data # quotationData'
             /\ started.data.quoteNo # quotationData'.quoteNo
       /\ \A i \in 1..Len(exports) :
             (i <= Len(exports') /\ lastOp' \notin {"exportToPDF:done", "exportToPDF:failed"})
             => exports'[i].data = exports[i].data
       /\ lastOp' = "exportToPDF:done" =>
             \E i \in 1..Len(exports) :
                LET document == downloads'[Len(downloads')] IN
                /\ exports' = dropAt(exports, i)
                /\ Len(downloads') = Len(downloads) + 1
                /\ document.kind = "pdf"
                /\ document.name = exports[i].data.quoteNo
                /\ document.title = exports[i].data.quoteNo
                /\ document.subject.json
                /\ document.subject.value.fields = exports[i].data]_vars

\* C28, witness: QT-9 was submitted, the form was reset to QT-10 and the
\* next quotation was begun before the document was written; the document
\* is named after QT-9 and holds the submitted customer and items
C28_Witness ==
    /\ lastOp = "exportToPDF:done"
    /\ quotationData.quoteNo = ABC
    /\ baseQuoteNo = QT10
    /\ quotationData.customerName = <<>>
    /\ Len(downloads) = 1
    /\ downloads[1].name = QT9
    /\ downloads[1].title = QT9
    /\ downloads[1].subject.value.fields.quoteNo = QT9
    /\ downloads[1].subject.value.fields.customerName = Acme
    /\ downloads[1].subject.value.fields.items = <<PipeItem>>

\* C29 (as claimed): once no PDF export is in flight any more, the inline
\* width of the preview container is the one it had before the first of
\* those exports started, whatever the schedule: two overlapping exports,
\* an export whose rasterization fails.  No handler but exportToPDF writes
\* the width, which is empty when the session starts.
C29_WidthRestored == exports = <<>> => containerWidth = ""

\* C30: when the first quotation submitted has a quote number that is a run
\* of digits without leading zero, of value N, and the quote number is not
\* edited afterwards, then after k submits the quote number is the decimal
\* text of N + k, and the recorded base quote number is equal to it.  The
\* exports in flight hold the submitted records in order, so the first of
\* them holds N and their number is k.
FirstSubmitted == exports[1].data.quoteNo

C30_SeriesCounts ==
    (/\ exports # <<>>
     /\ AllDigits(FirstSubmitted)
     /\ NoLeadingZero(FirstSubmitted))
    => /\ quotationData.quoteNo = toString(parseInt(FirstSubmitted) + Len(exports))
       /\ baseQuoteNo = quotationData.quoteNo
       /\ (FirstSubmitted = Nine /\ Len(exports) = 2
              => quotationData.quoteNo = <<"1", "1">>)
       /\ (FirstSubmitted = NinetyNine /\ Len(exports) = 3
              => quotationData.quoteNo = <<"1", "0", "2">>)
       /\ \A i \in 2..Len(exports) :
             exports[i].data.quoteNo = toString(parseInt(FirstSubmitted) + i - 1)

\* C30, witness: 42 was submitted, and after it two more quotations, each
\* filled in anew
C30_Witness ==
    /\ lastOp = "handleSubmit:submitted"
    /\ Len(exports) = 3
    /\ FirstSubmitted = FortyTwo
    /\ exports[2].data.quoteNo = FortyThree
    /\ exports[2].data.customerName = Acme
    /\ Len(exports[3].data.items) = 1
    /\ exports[3].data.items[1].description = Pipe
    /\ quotationData.quoteNo = <<"4", "5">>
    /\ baseQuoteNo = <<"4", "5">>

====
